---- MODULE Spec2Model ----
(***************************************************************************)
(* Model of the ClipResult component (src/unnamed/part_002): the caption   *)
(* overlay renderer, the playback controller and the canvas capture        *)
(* (export) pipeline.                                                      *)
(*                                                                         *)
(* Time is counted in tenths of a second, as integers.  Quotients the code *)
(* computes in floating point (progress percentages, per-character         *)
(* durations) are kept exact: a percentage is a reduced fraction           *)
(* [num, den], and a comparison against a quotient is cross-multiplied.    *)
(* A text is a sequence of UTF-16 code units, each written as a string:    *)
(* the ASCII character itself, or "U+XXXX" for a unit outside ASCII.       *)
(***************************************************************************)
EXTENDS Integers, Sequences, FiniteSets, TLC

VARIABLES
    activeClip,        \* useState activeClip: a Clip record or NoClip
    currentClipId,     \* useState currentClipId
    showCaptions,      \* useState showCaptions
    isPlaying,         \* useState isPlaying
    currentTime,       \* useState currentTime (clip-relative time)
    progress,          \* useState progress (percentage, a fraction)
    isExporting,       \* useState isExporting
    exportProgress,    \* useState exportProgress (percentage, a fraction)
    video,             \* the <video> element: currentTime, paused, pending events
    mediaRecorderRef,  \* mediaRecorderRef.current: 0 (null) or a recorder number
    recorders,         \* every MediaRecorder created so far, by number
    recordedChunks,    \* recordedChunksRef.current
    downloads,         \* the files saved through the temporary <a download>:
                       \* how many, and the last one
    canvas,            \* what the last render() drew on the canvas
    renderLoop,        \* the render effect: its closure, animationFrameRef and
                       \* the requestAnimationFrame callbacks that are pending
    app,               \* the App component that mounts ClipResult: its state
                       \* and the analyses in flight
    lastOp             \* history: the handler or event that ran last

vars == << activeClip, currentClipId, showCaptions, isPlaying, currentTime,
           progress, isExporting, exportProgress, video, mediaRecorderRef,
           recorders, recordedChunks, downloads, canvas, renderLoop, app,
           lastOp >>

----------------------------------------------------------------------------
(* Bounds of the model *)

\* length of the source video, in tenths of a second
VideoDuration == 6

\* number of exports (MediaRecorder instances) one behaviour may start
MaxExports == 2

\* largest caption boundary drawn for the caption lists of SpecRender
MaxCapT == 3

\* longest caption text drawn for the highlight heuristic in SpecRender
MaxTextLen == 4

\* longest caption duration drawn for the highlight heuristic in SpecRender
MaxWordD == 6

\* number of requestAnimationFrame calls one behaviour of SpecLoop may make
MaxFrames == 4

\* number of files one behaviour of SpecApp may process
MaxFiles == 3

----------------------------------------------------------------------------
(* Characters and texts *)

Lower == {"a","b","c","d","e","f","g","h","i","j","k","l","m",
          "n","o","p","q","r","s","t","u","v","w","x","y","z"}
Upper == {"A","B","C","D","E","F","G","H","I","J","K","L","M",
          "N","O","P","Q","R","S","T","U","V","W","X","Y","Z"}
Digit == {"0","1","2","3","4","5","6","7","8","9"}

\* the code units the regular expression class \s matches (those the model uses)
WhiteSpace == {" ", "\t", "\n", "U+00A0"}

MatchesNonAlnumCaseSensitive(ch) == ~ (ch \in Lower \cup Digit)

\* the test of title.replace(/[^a-z0-9]/gi, '_') on one code unit.  The class
\* matches exactly the code units that are not ASCII letters or digits: without
\* the u flag, case folding never maps a unit outside ASCII onto an ASCII letter
MatchesNonAlnum(ch) == ~ (ch \in Lower \cup Upper \cup Digit)

\* title.replace(/[^a-z0-9]/gi, '_')
RECURSIVE ReplaceNonAlnum(_)
ReplaceNonAlnum(title) ==
    IF title = << >> THEN << >>
    ELSE << IF MatchesNonAlnum(Head(title)) THEN "_" ELSE Head(title) >>
         \o ReplaceNonAlnum(Tail(title))

\* `${...}.webm`
DownloadName(title) == ReplaceNonAlnum(title) \o << ".", "w", "e", "b", "m" >>

\* String.prototype.trim
RECURSIVE TrimStart(_)
TrimStart(s) ==
    IF s # << >> /\ Head(s) \in WhiteSpace THEN TrimStart(Tail(s)) ELSE s

RECURSIVE TrimEnd(_)
TrimEnd(s) ==
    IF s # << >> /\ s[Len(s)] \in WhiteSpace
    THEN TrimEnd(SubSeq(s, 1, Len(s) - 1)) ELSE s

Trim(s) == TrimEnd(TrimStart(s))

\* the length of the leading run of non-whitespace units of s
RECURSIVE WordEnd(_)
WordEnd(s) ==
    IF s = << >> \/ Head(s) \in WhiteSpace THEN 0 ELSE 1 + WordEnd(Tail(s))

\* split(/\s+/) of a trimmed string; the empty string splits into [""]
RECURSIVE SplitWhiteSpace(_)
SplitWhiteSpace(s) ==
    LET n == WordEnd(s)
    IN  IF n = Len(s) THEN << s >>
        ELSE << SubSeq(s, 1, n) >>
             \o SplitWhiteSpace(TrimStart(SubSeq(s, n + 1, Len(s))))

\* currentCaption.text.trim().split(/\s+/)
Words(text) == SplitWhiteSpace(Trim(text))

----------------------------------------------------------------------------
(* Fractions: the percentages the code computes by division *)

RECURSIVE GCD(_, _)
GCD(a, b) == IF b = 0 THEN a ELSE GCD(b, a % b)

\* n / d for n >= 0, d >= 0.  Division by zero follows IEEE 754: 0/0 is NaN,
\* written [num |-> 0, den |-> 0]; n/0 is Infinity, written [num |-> 1, den |-> 0]
Frac(n, d) ==
    IF d = 0 THEN [num |-> IF n = 0 THEN 0 ELSE 1, den |-> 0]
    ELSE LET g == GCD(n, d) IN [num |-> n \div g, den |-> d \div g]

Zero == Frac(0, 1)

IsNumber(f) == f.den # 0

FracLess(f, g) == IsNumber(f) /\ IsNumber(g) /\ f.num * g.den < g.num * f.den

FracLeq(f, g) == IsNumber(f) /\ IsNumber(g) /\ f.num * g.den <= g.num * f.den

----------------------------------------------------------------------------
(* Clips and captions (src/unnamed/part_000) *)

NoClip == [id |-> "none", title |-> << >>, startSeconds |-> 0, endSeconds |-> 0,
           captions |-> << >>]

Caption(text, s, e) == [text |-> text, startSeconds |-> s, endSeconds |-> e]

Clip(id, title, s, e, captions) ==
    [id |-> id, title |-> title, startSeconds |-> s, endSeconds |-> e,
     captions |-> captions]

\* the clips prop of the component in Spec: two overlapping clips of the source
\* video, the first with two touching captions, the second without captions
ClipsProp ==
    << Clip("c1", << "H", "i", " ", "9", "!" >>, 1, 5,
            << Caption(<< "a", " ", "b" >>, 1, 3),
               Caption(<< "c", "d" >>, 3, 5) >>),
       Clip("c2", << "U+00E9", "_", "Z", "U+D83D", "U+DE00" >>, 3, 5, << >>) >>

----------------------------------------------------------------------------
(* Caption Timing Resolver: render(), lines 76-129 *)

RECURSIVE FindIndexFromHalfOpen(_, _, _)
FindIndexFromHalfOpen(captions, i, vidTime) ==
    IF i > Len(captions) THEN -1
    ELSE IF vidTime >= captions[i].startSeconds /\ vidTime < captions[i].endSeconds
         THEN i - 1
         ELSE FindIndexFromHalfOpen(captions, i + 1, vidTime)

\* activeClip.captions.findIndex(c => vidTime >= c.startSeconds &&
\*                                    vidTime <= c.endSeconds), 0-based, -1 if none
RECURSIVE FindIndexFrom(_, _, _)
FindIndexFrom(captions, i, vidTime) ==
    IF i > Len(captions) THEN -1
    ELSE IF vidTime >= captions[i].startSeconds /\ vidTime <= captions[i].endSeconds
         THEN i - 1
         ELSE FindIndexFrom(captions, i + 1, vidTime)

CaptionIndex(captions, vidTime) == FindIndexFrom(captions, 1, vidTime)

RECURSIVE WordLoopNoPadding(_, _, _, _, _, _)
WordLoopNoPadding(words, i, charAccumulator, timePassed, captionDuration, totalChars) ==
    IF i > Len(words) THEN -1
    ELSE LET wLen == Len(words[i])
         IN  IF /\ timePassed * totalChars >= charAccumulator * captionDuration
                /\ timePassed * totalChars < (charAccumulator + wLen) * captionDuration
             THEN i - 1
             ELSE WordLoopNoPadding(words, i + 1, charAccumulator + wLen, timePassed,
                                    captionDuration, totalChars)

\* the for loop of lines 114-125, from word i (1-based here) on.  charDuration
\* is captionDuration / totalChars with totalChars >= 1, so
\*   timePassed >= charAccumulator * charDuration
\* is  timePassed * totalChars >= charAccumulator * captionDuration.
RECURSIVE WordLoop(_, _, _, _, _, _)
WordLoop(words, i, charAccumulator, timePassed, captionDuration, totalChars) ==
    IF i > Len(words) THEN -1
    ELSE LET wLen == Len(words[i]) + 1
         IN  IF /\ timePassed * totalChars >= charAccumulator * captionDuration
                /\ timePassed * totalChars < (charAccumulator + wLen) * captionDuration
             THEN i - 1
             ELSE WordLoop(words, i + 1, charAccumulator + wLen, timePassed,
                           captionDuration, totalChars)

FallbackFirstWord(activeWordIndex, words, timePassed, captionDuration) ==
    IF activeWordIndex = -1 /\ 10 * timePassed >= 9 * captionDuration
    THEN 0
    ELSE activeWordIndex

\* lines 126-129: the fallback to the last word
Fallback(activeWordIndex, words, timePassed, captionDuration) ==
    IF activeWordIndex = -1 /\ 10 * timePassed >= 9 * captionDuration
    THEN Len(words) - 1
    ELSE activeWordIndex

Max(a, b) == IF a >= b THEN a ELSE b

\* lines 84 and 103-129: the 0-based index of the highlighted word, -1 if none
ActiveWordIndex(currentCaption, vidTime) ==
    LET words == Words(currentCaption.text)
        captionDuration == currentCaption.endSeconds - currentCaption.startSeconds
        timePassed == vidTime - currentCaption.startSeconds
        totalChars == Max(1, Len(currentCaption.text))
    IN  Fallback(WordLoop(words, 1, 0, timePassed, captionDuration, totalChars),
                 words, timePassed, captionDuration)

Blank == [drawn |-> FALSE, frame |-> 0, captionIndex |-> -1, activeWordIndex |-> -1]

\* one call of render(): the frame at video.currentTime, and the caption with
\* its highlighted word when captions are shown and a caption is active
Frame(clip, captionsOn, vidTime) ==
    LET captionIndex == IF captionsOn /\ clip # NoClip
                        THEN CaptionIndex(clip.captions, vidTime) ELSE -1
    IN  [drawn |-> TRUE, frame |-> vidTime, captionIndex |-> captionIndex,
         activeWordIndex |->
             IF captionIndex = -1 THEN -1
             ELSE ActiveWordIndex(clip.captions[captionIndex + 1], vidTime)]

\* error and logged belong to the catch handlers of playClip and togglePlay:
\* the name of the error and whether console.error was called
Op(name) == [op |-> name, clip |-> "none", pos |-> 0, again |-> FALSE,
             error |-> "none", logged |-> FALSE]

----------------------------------------------------------------------------
(* The <video> element and the MediaRecorder, as the handlers use them *)

\* video.currentTime = t: the seek is followed by a timeupdate event
SetCurrentTime(v, t) == [v EXCEPT !.currentTime = t, !.timeupdate = TRUE]

\* the errors a play() promise of playClip or togglePlay is rejected with:
\* AbortError when a pause() supersedes the pending request, NotAllowedError
\* when the platform refuses to play
PlayErrors == {"AbortError", "NotAllowedError"}

\* video.pause(): nothing when already paused; else paused, a pause and a
\* timeupdate event are queued and the pending play() promises are rejected
\* (AbortError): promise, the one of the export, becomes "aborted", a
\* rejection whose handler is due; playback, the one of playClip or
\* togglePlay, becomes "AbortError", due to their catch handler.  The promises
\* of playClip and togglePlay are followed where playback starts as "none"
\* (SpecPlayback); where it is "off" they are left out, their handlers setting
\* no state of the component
Pause(v) ==
    IF v.paused THEN v
    ELSE [v EXCEPT !.paused = TRUE, !.events = Append(@, "pause"),
                   !.timeupdate = TRUE,
                   !.promise = IF @ = "pending" THEN "aborted" ELSE @,
                   !.playback = IF @ = "pending" THEN "AbortError" ELSE @]

\* video.play(), accepted by the platform: a play event is queued when the
\* element was paused.  exportPromise: the promise has the export's catch handler
Play(v, exportPromise) ==
    IF v.paused
    THEN [v EXCEPT !.paused = FALSE, !.events = Append(@, "play"),
                   !.promise = IF exportPromise THEN "pending" ELSE @,
                   !.playback = IF exportPromise \/ @ = "off" THEN @ ELSE "pending"]
    ELSE v

\* video.play() of playClip or togglePlay, refused by the platform: the
\* element stays as it is and the promise is rejected
PlayRefused(v) == [v EXCEPT !.playback = IF @ = "off" THEN @ ELSE "NotAllowedError"]

\* new MediaRecorder(...) followed by recorder.start(); clip is the activeClip
\* the onstop closure captured; audio, whether the audio track of the video was
\* added to the recorded stream.  The other fields are history: played, the
\* playback time elapsed during the export (counted up to the clip's
\* duration); stops, the stop() calls that took effect; early, whether the stop
\* came before the clip's duration had been played; boundaryTicks, the
\* timeupdate events (counted up to 2) that found the clip's end reached
\* during the export; saved, the downloads its onstop handler made;
\* delivered, the dataavailable events of it that were handled; chunks, the
\* chunks among them that were not empty and went into the buffer
NewRecorder(clip, audio) ==
    [state |-> "recording", clip |-> clip, audio |-> audio, pending |-> "none",
     played |-> 0, stops |-> 0, early |-> FALSE, boundaryTicks |-> 0, saved |-> 0,
     delivered |-> 0, chunks |-> 0]

\* a recorder that mediaRecorderRef.current no longer refers to while it is
\* recording: nothing can stop it, so it records on and its handlers never run;
\* what its closure holds and its history are of no use any more
Abandoned(r) ==
    IF r.state = "recording"
    THEN [r EXCEPT !.clip = NoClip, !.audio = FALSE, !.played = 0]
    ELSE r

StopAcknowledgedFirst(r) ==
    IF r.state = "inactive" THEN r
    ELSE [r EXCEPT !.state = "inactive", !.pending = "stop", !.stops = @ + 1,
                   !.early = r.played < r.clip.endSeconds - r.clip.startSeconds,
                   !.played = 0]

\* recorder.stop(): inactive at once; dataavailable, then stop, are queued
Stop(r) ==
    IF r.state = "inactive" THEN r
    ELSE [r EXCEPT !.state = "inactive", !.pending = "data", !.stops = @ + 1,
                   !.early = r.played < r.clip.endSeconds - r.clip.startSeconds,
                   !.played = 0]

\* finishExport(), lines 332-337, on the video element v and the recorders rs
FinishExportInvertedGuard(v, rs, ref) ==
    IF ref # 0 /\ rs[ref].state = "inactive"
    THEN [video |-> Pause(v), recorders |-> [rs EXCEPT ![ref] = Stop(@)]]
    ELSE [video |-> v, recorders |-> rs]

FinishExport(v, rs, ref) ==
    IF ref # 0 /\ rs[ref].state # "inactive"
    THEN [video |-> Pause(v), recorders |-> [rs EXCEPT ![ref] = Stop(@)]]
    ELSE [video |-> v, recorders |-> rs]

----------------------------------------------------------------------------
(* Time Mapper: the arithmetic of handleTimeUpdate, lines 192-195 *)

ClipDuration(clip) == clip.endSeconds - clip.startSeconds

\* Math.max(0, vidTime - activeClip.startSeconds)
CurrentClipTime(clip, vidTime) == Max(0, vidTime - clip.startSeconds)

ProgressPercentTruncated(clip, vidTime) ==
    IF ClipDuration(clip) = 0 THEN Frac(CurrentClipTime(clip, vidTime) * 100, 0)
    ELSE Frac((CurrentClipTime(clip, vidTime) \div ClipDuration(clip)) * 100, 1)

\* (currentClipTime / clipDuration) * 100
ProgressPercent(clip, vidTime) ==
    Frac(CurrentClipTime(clip, vidTime) * 100, ClipDuration(clip))

----------------------------------------------------------------------------
(* Initial state: the component after its first render, before its effects *)

\* the render effect before its first run: the component is mounted,
\* animationFrameRef.current is null (0) and no callback is pending.  deps are
\* the dependencies [activeClip, showCaptions] of the effect's last run; issued
\* counts the handles requestAnimationFrame has returned
NoLoop == [mounted |-> TRUE, deps |-> << >>, animationFrameRef |-> 0,
           pending |-> {}, issued |-> 0]

\* the App component before a file is chosen (src/services/geminiService.ts,
\* lines 197-202).  Files are numbered from 1: videoUrl is the file whose
\* object URL is held (0: null), clips the file whose analysis result is held
\* (0: the empty list), error whether an error is held, pending the files
\* whose analysis is in flight, files how many files were processed so far
NoApp == [appState |-> "IDLE", videoUrl |-> 0, clips |-> 0, error |-> FALSE,
          pending |-> {}, files |-> 0]

NoDownload == [name |-> << >>, blob |-> << >>, recorder |-> 0, clip |-> "none",
               audio |-> FALSE, boundaryTicks |-> 0, delivered |-> 0, chunks |-> 0]

NoComponentChange ==
    UNCHANGED << activeClip, currentClipId, isPlaying, currentTime, progress,
                 isExporting, exportProgress, video, mediaRecorderRef,
                 recorders, recordedChunks, downloads, renderLoop, app >>

InitComponent ==
    /\ currentClipId = "none"
    /\ isPlaying = FALSE
    /\ currentTime = 0
    /\ progress = Zero
    /\ isExporting = FALSE
    /\ exportProgress = Zero
    /\ mediaRecorderRef = 0
    /\ recorders = << >>
    /\ recordedChunks = << >>
    /\ downloads = [count |-> 0, last |-> NoDownload]
    /\ canvas = Blank
    /\ renderLoop = NoLoop
    /\ app = NoApp
    /\ lastOp = Op("init")

Init ==
    /\ InitComponent
    /\ activeClip = NoClip
    /\ showCaptions = TRUE
    /\ video = [currentTime |-> 0, paused |-> TRUE, events |-> << >>,
                timeupdate |-> FALSE, promise |-> "none", playback |-> "off"]

----------------------------------------------------------------------------
(* The effects and handlers of the component *)

\* the callbacks (media events, recorder events, a rejection of the export's
\* play() promise) queued and not yet delivered
PendingCallbacks ==
    Len(video.events)
    + (IF video.promise = "aborted" THEN 1 ELSE 0)
    + (IF video.playback \in PlayErrors THEN 1 ELSE 0)
    + Cardinality({ k \in DOMAIN recorders : recorders[k].pending # "none" })

\* scheduling: queued callbacks are delivered within milliseconds, so the next
\* user action (a click, a key) finds none of them pending
UserCanAct == PendingCallbacks = 0

ClipSet == { ClipsProp[i] : i \in 1..Len(ClipsProp) }

InitialClipEffectAlways ==
    /\ Len(ClipsProp) > 0
    /\ activeClip' = ClipsProp[1]
    /\ currentClipId' = ClipsProp[1].id
    /\ video' = SetCurrentTime(video, ClipsProp[1].startSeconds)
    /\ currentTime' = 0
    /\ progress' = Zero
    /\ lastOp' = [Op("initialClip") EXCEPT !.clip = ClipsProp[1].id]
    /\ UNCHANGED << showCaptions, isPlaying, isExporting, exportProgress,
                    mediaRecorderRef, recorders, recordedChunks, downloads, canvas,
                    renderLoop, app >>

\* useEffect of lines 32-43: the first clip becomes the active clip
InitialClipEffect ==
    /\ Len(ClipsProp) > 0
    /\ activeClip = NoClip
    /\ activeClip' = ClipsProp[1]
    /\ currentClipId' = ClipsProp[1].id
    /\ video' = SetCurrentTime(video, ClipsProp[1].startSeconds)
    /\ currentTime' = 0
    /\ progress' = Zero
    /\ lastOp' = [Op("initialClip") EXCEPT !.clip = ClipsProp[1].id]
    /\ UNCHANGED << showCaptions, isPlaying, isExporting, exportProgress,
                    mediaRecorderRef, recorders, recordedChunks, downloads, canvas,
                    renderLoop, app >>

HandleTimeUpdateLoops ==
    /\ ~ video.paused \/ video.timeupdate
    /\ LET vidTime == video.currentTime
           v == [video EXCEPT !.timeupdate = FALSE]
       IN  /\ lastOp' = [Op("timeUpdate") EXCEPT !.clip = activeClip.id, !.pos = vidTime]
           /\ IF activeClip = NoClip
              THEN /\ video' = v
                   /\ UNCHANGED << currentTime, progress, isPlaying, exportProgress,
                                   recorders >>
              ELSE LET atEnd == vidTime >= activeClip.endSeconds
                       counted == IF atEnd /\ isExporting /\ mediaRecorderRef # 0
                                  THEN [recorders EXCEPT ![mediaRecorderRef].boundaryTicks
                                                             = IF @ < 2 THEN @ + 1 ELSE @]
                                  ELSE recorders
                       fin == FinishExport(v, counted, mediaRecorderRef)
                   IN  /\ currentTime' = CurrentClipTime(activeClip, vidTime)
                       /\ progress' = ProgressPercent(activeClip, vidTime)
                       /\ IF atEnd /\ isExporting
                          THEN /\ video' = fin.video
                               /\ recorders' = fin.recorders
                               /\ UNCHANGED isPlaying
                          ELSE IF atEnd
                          THEN /\ video' = SetCurrentTime(v, activeClip.startSeconds)
                               /\ UNCHANGED << isPlaying, recorders >>
                          ELSE /\ video' = v
                               /\ UNCHANGED << isPlaying, recorders >>
                       /\ exportProgress' = IF isExporting
                                            THEN ProgressPercent(activeClip, vidTime)
                                            ELSE exportProgress
    /\ UNCHANGED << activeClip, currentClipId, showCaptions, isExporting,
                    mediaRecorderRef, recordedChunks, downloads, canvas,
                    renderLoop, app >>

HandleTimeUpdateNoExportProgress ==
    /\ ~ video.paused \/ video.timeupdate
    /\ LET vidTime == video.currentTime
           v == [video EXCEPT !.timeupdate = FALSE]
       IN  /\ lastOp' = [Op("timeUpdate") EXCEPT !.clip = activeClip.id, !.pos = vidTime]
           /\ IF activeClip = NoClip
              THEN /\ video' = v
                   /\ UNCHANGED << currentTime, progress, isPlaying, exportProgress,
                                   recorders >>
              ELSE LET atEnd == vidTime >= activeClip.endSeconds
                       counted == IF atEnd /\ isExporting /\ mediaRecorderRef # 0
                                  THEN [recorders EXCEPT ![mediaRecorderRef].boundaryTicks
                                                             = IF @ < 2 THEN @ + 1 ELSE @]
                                  ELSE recorders
                       fin == FinishExport(v, counted, mediaRecorderRef)
                   IN  /\ currentTime' = CurrentClipTime(activeClip, vidTime)
                       /\ progress' = ProgressPercent(activeClip, vidTime)
                       /\ IF atEnd /\ isExporting
                          THEN /\ video' = fin.video
                               /\ recorders' = fin.recorders
                               /\ UNCHANGED isPlaying
                          ELSE IF atEnd
                          THEN /\ video' = SetCurrentTime(Pause(v), activeClip.startSeconds)
                               /\ isPlaying' = FALSE
                               /\ UNCHANGED recorders
                          ELSE /\ video' = v
                               /\ UNCHANGED << isPlaying, recorders >>
                       /\ UNCHANGED exportProgress
    /\ UNCHANGED << activeClip, currentClipId, showCaptions, isExporting,
                    mediaRecorderRef, recordedChunks, downloads, canvas,
                    renderLoop, app >>

HandleTimeUpdateAbsoluteTime ==
    /\ ~ video.paused \/ video.timeupdate
    /\ LET vidTime == video.currentTime
           v == [video EXCEPT !.timeupdate = FALSE]
       IN  /\ lastOp' = [Op("timeUpdate") EXCEPT !.clip = activeClip.id, !.pos = vidTime]
           /\ IF activeClip = NoClip
              THEN /\ video' = v
                   /\ UNCHANGED << currentTime, progress, isPlaying, exportProgress,
                                   recorders >>
              ELSE LET atEnd == vidTime >= activeClip.endSeconds
                       counted == IF atEnd /\ isExporting /\ mediaRecorderRef # 0
                                  THEN [recorders EXCEPT ![mediaRecorderRef].boundaryTicks
                                                             = IF @ < 2 THEN @ + 1 ELSE @]
                                  ELSE recorders
                       fin == FinishExport(v, counted, mediaRecorderRef)
                   IN  /\ currentTime' = vidTime
                       /\ progress' = ProgressPercent(activeClip, vidTime)
                       /\ IF atEnd /\ isExporting
                          THEN /\ video' = fin.video
                               /\ recorders' = fin.recorders
                               /\ UNCHANGED isPlaying
                          ELSE IF atEnd
                          THEN /\ video' = SetCurrentTime(Pause(v), activeClip.startSeconds)
                               /\ isPlaying' = FALSE
                               /\ UNCHANGED recorders
                          ELSE /\ video' = v
                               /\ UNCHANGED << isPlaying, recorders >>
                       /\ exportProgress' = IF isExporting
                                            THEN ProgressPercent(activeClip, vidTime)
                                            ELSE exportProgress
    /\ UNCHANGED << activeClip, currentClipId, showCaptions, isExporting,
                    mediaRecorderRef, recordedChunks, downloads, canvas,
                    renderLoop, app >>

\* handleTimeUpdate, lines 187-213, on a timeupdate event of the video: one is
\* due after a seek or a pause, and they keep coming while the video plays
HandleTimeUpdate ==
    /\ ~ video.paused \/ video.timeupdate
    /\ LET vidTime == video.currentTime
           v == [video EXCEPT !.timeupdate = FALSE]
       IN  /\ lastOp' = [Op("timeUpdate") EXCEPT !.clip = activeClip.id, !.pos = vidTime]
           /\ IF activeClip = NoClip
              THEN /\ video' = v
                   /\ UNCHANGED << currentTime, progress, isPlaying, exportProgress,
                                   recorders >>
              ELSE LET atEnd == vidTime >= activeClip.endSeconds
                       counted == IF atEnd /\ isExporting /\ mediaRecorderRef # 0
                                  THEN [recorders EXCEPT ![mediaRecorderRef].boundaryTicks
                                                             = IF @ < 2 THEN @ + 1 ELSE @]
                                  ELSE recorders
                       fin == FinishExport(v, counted, mediaRecorderRef)
                   IN  /\ currentTime' = CurrentClipTime(activeClip, vidTime)
                       /\ progress' = ProgressPercent(activeClip, vidTime)
                       /\ IF atEnd /\ isExporting
                          THEN /\ video' = fin.video
                               /\ recorders' = fin.recorders
                               /\ UNCHANGED isPlaying
                          ELSE IF atEnd
                          THEN /\ video' = SetCurrentTime(Pause(v), activeClip.startSeconds)
                               /\ isPlaying' = FALSE
                               /\ UNCHANGED recorders
                          ELSE /\ video' = v
                               /\ UNCHANGED << isPlaying, recorders >>
                       /\ exportProgress' = IF isExporting
                                            THEN ProgressPercent(activeClip, vidTime)
                                            ELSE exportProgress
    /\ UNCHANGED << activeClip, currentClipId, showCaptions, isExporting,
                    mediaRecorderRef, recordedChunks, downloads, canvas,
                    renderLoop, app >>

SelectOps == {"playClip", "playClipRejected"}

PlayClipKeepsProgress(clip, accepted) ==
    /\ ~ isExporting
    /\ UserCanAct
    /\ activeClip' = clip
    /\ currentClipId' = clip.id
    /\ LET v == SetCurrentTime(video, clip.startSeconds)
       IN  video' = IF accepted THEN Play(v, FALSE) ELSE PlayRefused(v)
    /\ lastOp' = [op |-> IF accepted THEN "playClip" ELSE "playClipRejected",
                  clip |-> clip.id, pos |-> clip.startSeconds,
                  again |-> lastOp.op \in SelectOps /\ lastOp.clip = clip.id,
                  error |-> "none", logged |-> FALSE]
    /\ UNCHANGED << showCaptions, isPlaying, currentTime, progress, isExporting,
                    exportProgress, mediaRecorderRef, recorders, recordedChunks,
                    downloads, canvas,
                    renderLoop, app >>

PlayClipWithoutPlay(clip, accepted) ==
    /\ ~ isExporting
    /\ UserCanAct
    /\ activeClip' = clip
    /\ currentClipId' = clip.id
    /\ currentTime' = 0
    /\ progress' = Zero
    /\ video' = SetCurrentTime(video, clip.startSeconds)
    /\ lastOp' = [op |-> IF accepted THEN "playClip" ELSE "playClipRejected",
                  clip |-> clip.id, pos |-> clip.startSeconds,
                  again |-> lastOp.op \in SelectOps /\ lastOp.clip = clip.id,
                  error |-> "none", logged |-> FALSE]
    /\ UNCHANGED << showCaptions, isPlaying, isExporting, exportProgress,
                    mediaRecorderRef, recorders, recordedChunks, downloads, canvas,
                    renderLoop, app >>

PlayClipWhileExporting(clip, accepted) ==
    /\ UserCanAct
    /\ activeClip' = clip
    /\ currentClipId' = clip.id
    /\ currentTime' = 0
    /\ progress' = Zero
    /\ LET v == SetCurrentTime(video, clip.startSeconds)
       IN  video' = IF accepted THEN Play(v, FALSE) ELSE PlayRefused(v)
    /\ lastOp' = [op |-> IF accepted THEN "playClip" ELSE "playClipRejected",
                  clip |-> clip.id, pos |-> clip.startSeconds,
                  again |-> lastOp.op \in SelectOps /\ lastOp.clip = clip.id,
                  error |-> "none", logged |-> FALSE]
    /\ UNCHANGED << showCaptions, isPlaying, isExporting, exportProgress,
                    mediaRecorderRef, recorders, recordedChunks, downloads, canvas,
                    renderLoop, app >>

\* playClip(clip), lines 215-231, from a click on the clip list, which ignores
\* clicks while exporting (line 503).  accepted: the platform accepts play();
\* a rejected play() leaves its rejection to the catch handler.  lastOp.again:
\* the handler that ran just before was playClip of the same clip
PlayClip(clip, accepted) ==
    /\ ~ isExporting
    /\ UserCanAct
    /\ activeClip' = clip
    /\ currentClipId' = clip.id
    /\ currentTime' = 0
    /\ progress' = Zero
    /\ LET v == SetCurrentTime(video, clip.startSeconds)
       IN  video' = IF accepted THEN Play(v, FALSE) ELSE PlayRefused(v)
    /\ lastOp' = [op |-> IF accepted THEN "playClip" ELSE "playClipRejected",
                  clip |-> clip.id, pos |-> clip.startSeconds,
                  again |-> lastOp.op \in SelectOps /\ lastOp.clip = clip.id,
                  error |-> "none", logged |-> FALSE]
    /\ UNCHANGED << showCaptions, isPlaying, isExporting, exportProgress,
                    mediaRecorderRef, recorders, recordedChunks, downloads, canvas,
                    renderLoop, app >>

\* a click on the clip list while exporting, line 503: playClip is not called
IgnoredClipClick(clip) ==
    /\ isExporting
    /\ UserCanAct
    /\ lastOp' = [Op("clipClickIgnored") EXCEPT !.clip = clip.id]
    /\ UNCHANGED << activeClip, currentClipId, showCaptions, isPlaying, currentTime,
                    progress, isExporting, exportProgress, video, mediaRecorderRef,
                    recorders, recordedChunks, downloads, canvas,
                    renderLoop, app >>

\* togglePlay, lines 233-246, from the canvas or a play button
TogglePlay(accepted) ==
    /\ UserCanAct
    /\ video' = IF video.paused
                THEN (IF accepted THEN Play(video, FALSE) ELSE PlayRefused(video))
                ELSE Pause(video)
    /\ lastOp' = Op("other")
    /\ UNCHANGED << activeClip, currentClipId, showCaptions, isPlaying, currentTime,
                    progress, isExporting, exportProgress, mediaRecorderRef,
                    recorders, recordedChunks, downloads, canvas,
                    renderLoop, app >>

\* the values of the range input the model draws; each puts the position of
\* every clip of ClipsProp on a whole tenth of a second
SeekPercents == {0, 50, 100}

HandleSeekAbsoluteTime(newPercentage) ==
    /\ UserCanAct
    /\ lastOp' = [Op("seek") EXCEPT !.clip = activeClip.id, !.pos = newPercentage]
    /\ IF activeClip = NoClip
       THEN UNCHANGED << video, progress, currentTime >>
       ELSE LET clipDuration == ClipDuration(activeClip)
                newTime == activeClip.startSeconds
                           + (clipDuration * newPercentage) \div 100
            IN  /\ video' = SetCurrentTime(video, newTime)
                /\ progress' = Frac(newPercentage, 1)
                /\ currentTime' = newTime
    /\ UNCHANGED << activeClip, currentClipId, showCaptions, isPlaying, isExporting,
                    exportProgress, mediaRecorderRef, recorders, recordedChunks,
                    downloads, canvas,
                    renderLoop, app >>

\* handleSeek, lines 248-257, from the range input
HandleSeek(newPercentage) ==
    /\ UserCanAct
    /\ lastOp' = [Op("seek") EXCEPT !.clip = activeClip.id, !.pos = newPercentage]
    /\ IF activeClip = NoClip
       THEN UNCHANGED << video, progress, currentTime >>
       ELSE LET clipDuration == ClipDuration(activeClip)
                newTime == activeClip.startSeconds
                           + (clipDuration * newPercentage) \div 100
            IN  /\ video' = SetCurrentTime(video, newTime)
                /\ progress' = Frac(newPercentage, 1)
                /\ currentTime' = newTime - activeClip.startSeconds
    /\ UNCHANGED << activeClip, currentClipId, showCaptions, isPlaying, isExporting,
                    exportProgress, mediaRecorderRef, recorders, recordedChunks,
                    downloads, canvas,
                    renderLoop, app >>

\* what lines 278-279 find: an audio track, a stream without audio tracks, or
\* no stream at all (the platform has no captureStream, or the call throws)
AudioOutcomes == {"track", "none", "fails"}

StartOps == {"download", "downloadNoAudio", "downloadRejected", "downloadAudioFailed"}

\* the handler ran to its end and the platform accepted play()
AcceptedOps == {"download", "downloadNoAudio"}

HandleDownloadClipKeepsBuffer(accepted, audio) ==
    /\ activeClip # NoClip
    /\ ~ isExporting
    /\ Len(recorders) < MaxExports
    /\ UserCanAct
    /\ isExporting' = TRUE
    /\ exportProgress' = Zero
    /\ UNCHANGED recordedChunks
    /\ LET v == SetCurrentTime(Pause(video), activeClip.startSeconds)
       IN  IF audio = "fails"
           THEN /\ video' = v
                /\ UNCHANGED << recorders, mediaRecorderRef >>
           ELSE /\ recorders' = Append([k \in DOMAIN recorders |-> Abandoned(recorders[k])],
                                       NewRecorder(activeClip, audio = "track"))
                /\ mediaRecorderRef' = Len(recorders) + 1
                /\ video' = IF accepted THEN Play(v, TRUE)
                             ELSE [v EXCEPT !.promise = "aborted"]
    /\ lastOp' = [Op(IF audio = "fails" THEN "downloadAudioFailed"
                     ELSE IF ~ accepted THEN "downloadRejected"
                     ELSE IF audio = "none" THEN "downloadNoAudio" ELSE "download")
                    EXCEPT !.clip = activeClip.id]
    /\ UNCHANGED << activeClip, currentClipId, showCaptions, isPlaying, currentTime,
                    progress, downloads, canvas,
                    renderLoop, app >>

HandleDownloadClipNeedsAudio(accepted, audio) ==
    /\ activeClip # NoClip
    /\ ~ isExporting
    /\ Len(recorders) < MaxExports
    /\ UserCanAct
    /\ isExporting' = TRUE
    /\ exportProgress' = Zero
    /\ recordedChunks' = << >>
    /\ LET v == SetCurrentTime(Pause(video), activeClip.startSeconds)
       IN  IF audio # "track"
           THEN /\ video' = v
                /\ UNCHANGED << recorders, mediaRecorderRef >>
           ELSE /\ recorders' = Append([k \in DOMAIN recorders |-> Abandoned(recorders[k])],
                                       NewRecorder(activeClip, audio = "track"))
                /\ mediaRecorderRef' = Len(recorders) + 1
                /\ video' = IF accepted THEN Play(v, TRUE)
                             ELSE [v EXCEPT !.promise = "aborted"]
    /\ lastOp' = [Op(IF audio = "fails" THEN "downloadAudioFailed"
                     ELSE IF ~ accepted THEN "downloadRejected"
                     ELSE IF audio = "none" THEN "downloadNoAudio" ELSE "download")
                    EXCEPT !.clip = activeClip.id]
    /\ UNCHANGED << activeClip, currentClipId, showCaptions, isPlaying, currentTime,
                    progress, downloads, canvas,
                    renderLoop, app >>

HandleDownloadClipWithoutClip(accepted, audio) ==
    /\ ~ isExporting
    /\ Len(recorders) < MaxExports
    /\ UserCanAct
    /\ isExporting' = TRUE
    /\ exportProgress' = Zero
    /\ recordedChunks' = << >>
    /\ LET v == SetCurrentTime(Pause(video), activeClip.startSeconds)
       IN  IF audio = "fails"
           THEN /\ video' = v
                /\ UNCHANGED << recorders, mediaRecorderRef >>
           ELSE /\ recorders' = Append([k \in DOMAIN recorders |-> Abandoned(recorders[k])],
                                       NewRecorder(activeClip, audio = "track"))
                /\ mediaRecorderRef' = Len(recorders) + 1
                /\ video' = IF accepted THEN Play(v, TRUE)
                             ELSE [v EXCEPT !.promise = "aborted"]
    /\ lastOp' = [Op(IF audio = "fails" THEN "downloadAudioFailed"
                     ELSE IF ~ accepted THEN "downloadRejected"
                     ELSE IF audio = "none" THEN "downloadNoAudio" ELSE "download")
                    EXCEPT !.clip = activeClip.id]
    /\ UNCHANGED << activeClip, currentClipId, showCaptions, isPlaying, currentTime,
                    progress, downloads, canvas,
                    renderLoop, app >>

HandleDownloadClipStopsPrevious(accepted, audio) ==
    /\ activeClip # NoClip
    /\ ~ isExporting
    /\ Len(recorders) < MaxExports
    /\ UserCanAct
    /\ isExporting' = TRUE
    /\ exportProgress' = Zero
    /\ recordedChunks' = << >>
    /\ LET v == SetCurrentTime(Pause(video), activeClip.startSeconds)
       IN  IF audio = "fails"
           THEN /\ video' = v
                /\ UNCHANGED << recorders, mediaRecorderRef >>
           ELSE /\ recorders' = Append([k \in DOMAIN recorders |-> Stop(recorders[k])],
                                       NewRecorder(activeClip, audio = "track"))
                /\ mediaRecorderRef' = Len(recorders) + 1
                /\ video' = IF accepted THEN Play(v, TRUE)
                             ELSE [v EXCEPT !.promise = "aborted"]
    /\ lastOp' = [Op(IF audio = "fails" THEN "downloadAudioFailed"
                     ELSE IF ~ accepted THEN "downloadRejected"
                     ELSE IF audio = "none" THEN "downloadNoAudio" ELSE "download")
                    EXCEPT !.clip = activeClip.id]
    /\ UNCHANGED << activeClip, currentClipId, showCaptions, isPlaying, currentTime,
                    progress, downloads, canvas,
                    renderLoop, app >>

\* handleDownloadClip, lines 261-330, from the Download Clip button, which is
\* rendered for an active clip and disabled while exporting (lines 466, 480).
\* audio: the outcome of lines 278-279; when they throw, the handler ends there,
\* after lines 264-270.  accepted: the platform accepts play(); else its
\* promise is rejected and the catch handler of line 325 is due
HandleDownloadClip(accepted, audio) ==
    /\ activeClip # NoClip
    /\ ~ isExporting
    /\ Len(recorders) < MaxExports
    /\ UserCanAct
    /\ isExporting' = TRUE
    /\ exportProgress' = Zero
    /\ recordedChunks' = << >>
    /\ LET v == SetCurrentTime(Pause(video), activeClip.startSeconds)
       IN  IF audio = "fails"
           THEN /\ video' = v
                /\ UNCHANGED << recorders, mediaRecorderRef >>
           ELSE /\ recorders' = Append([k \in DOMAIN recorders |-> Abandoned(recorders[k])],
                                       NewRecorder(activeClip, audio = "track"))
                /\ mediaRecorderRef' = Len(recorders) + 1
                /\ video' = IF accepted THEN Play(v, TRUE)
                             ELSE [v EXCEPT !.promise = "aborted"]
    /\ lastOp' = [Op(IF audio = "fails" THEN "downloadAudioFailed"
                     ELSE IF ~ accepted THEN "downloadRejected"
                     ELSE IF audio = "none" THEN "downloadNoAudio" ELSE "download")
                    EXCEPT !.clip = activeClip.id]
    /\ UNCHANGED << activeClip, currentClipId, showCaptions, isPlaying, currentTime,
                    progress, downloads, canvas,
                    renderLoop, app >>

\* onPlay / onPause of the video element, lines 378-379
OnMediaEvent ==
    /\ video.events # << >>
    /\ video' = [video EXCEPT !.events = Tail(@)]
    /\ isPlaying' = IF isExporting THEN isPlaying ELSE Head(video.events) = "play"
    /\ lastOp' = Op("other")
    /\ UNCHANGED << activeClip, currentClipId, showCaptions, currentTime, progress,
                    isExporting, exportProgress, mediaRecorderRef, recorders,
                    recordedChunks, downloads, canvas,
                    renderLoop, app >>

\* the catch handler of line 325 when the export's play() promise is rejected:
\* by the platform, or by a pause() that came before playback began
ExportPlayAborted ==
    /\ video.promise = "aborted"
    /\ video' = [video EXCEPT !.promise = "none"]
    /\ isExporting' = FALSE
    /\ lastOp' = Op("exportAborted")
    /\ UNCHANGED << activeClip, currentClipId, showCaptions, isPlaying, currentTime,
                    progress, exportProgress, mediaRecorderRef, recorders,
                    recordedChunks, downloads, canvas,
                    renderLoop, app >>

PlaybackFailedLogsAll ==
    /\ video.playback \in PlayErrors
    /\ video' = [video EXCEPT !.playback = "none"]
    /\ lastOp' = [Op("playbackFailed") EXCEPT !.error = video.playback,
                                              !.logged = TRUE]
    /\ UNCHANGED << activeClip, currentClipId, showCaptions, isPlaying, currentTime,
                    progress, isExporting, exportProgress, mediaRecorderRef, recorders,
                    recordedChunks, downloads, canvas, renderLoop, app >>

\* the catch handlers of playClip and togglePlay, lines 226-228 and 240-242:
\* console.error unless the error is an AbortError
PlaybackFailed ==
    /\ video.playback \in PlayErrors
    /\ video' = [video EXCEPT !.playback = "none"]
    /\ lastOp' = [Op("playbackFailed") EXCEPT !.error = video.playback,
                                              !.logged = video.playback # "AbortError"]
    /\ UNCHANGED << activeClip, currentClipId, showCaptions, isPlaying, currentTime,
                    progress, isExporting, exportProgress, mediaRecorderRef, recorders,
                    recordedChunks, downloads, canvas, renderLoop, app >>

\* recorder.ondataavailable, lines 293-297: the final chunk of recorder k, kept
\* when it is not empty
OnDataAvailable(k, size) ==
    /\ recorders[k].pending = "data"
    /\ recorders' = [recorders EXCEPT ![k].pending = "stop",
                                      ![k].delivered = @ + 1,
                                      ![k].chunks = @ + size]
    /\ recordedChunks' = IF size > 0 THEN Append(recordedChunks, k) ELSE recordedChunks
    /\ lastOp' = Op("other")
    /\ UNCHANGED << activeClip, currentClipId, showCaptions, isPlaying, currentTime,
                    progress, isExporting, exportProgress, video, mediaRecorderRef,
                    downloads, canvas,
                    renderLoop, app >>

\* a recorder whose onstop handler has run: it stays inactive, no event of it
\* is pending, and nothing reads its closure again
Finished(r) ==
    [r EXCEPT !.pending = "none", !.clip = NoClip, !.audio = FALSE, !.early = FALSE,
              !.boundaryTicks = 0, !.delivered = 0, !.chunks = 0, !.saved = @ + 1]

OnStopKeepsProgress(k) ==
    /\ recorders[k].pending = "stop"
    /\ recorders' = [recorders EXCEPT ![k] = Finished(@)]
    /\ downloads' = [count |-> downloads.count + 1,
                     last |-> [name |-> DownloadName(recorders[k].clip.title),
                               blob |-> recordedChunks, recorder |-> k,
                               clip |-> recorders[k].clip.id,
                               audio |-> recorders[k].audio,
                               boundaryTicks |-> recorders[k].boundaryTicks,
                               delivered |-> recorders[k].delivered,
                               chunks |-> recorders[k].chunks]]
    /\ isExporting' = FALSE
    /\ video' = SetCurrentTime(video, recorders[k].clip.startSeconds)
    /\ lastOp' = [Op("onStop") EXCEPT !.clip = recorders[k].clip.id]
    /\ UNCHANGED << activeClip, currentClipId, showCaptions, isPlaying, currentTime,
                    progress, exportProgress, mediaRecorderRef, recordedChunks, canvas,
                    renderLoop, app >>

OnStopUsesActiveClip(k) ==
    /\ recorders[k].pending = "stop"
    /\ recorders' = [recorders EXCEPT ![k] = Finished(@)]
    /\ downloads' = [count |-> downloads.count + 1,
                     last |-> [name |-> DownloadName(activeClip.title),
                               blob |-> recordedChunks, recorder |-> k,
                               clip |-> recorders[k].clip.id,
                               audio |-> recorders[k].audio,
                               boundaryTicks |-> recorders[k].boundaryTicks,
                               delivered |-> recorders[k].delivered,
                               chunks |-> recorders[k].chunks]]
    /\ isExporting' = FALSE
    /\ exportProgress' = Zero
    /\ video' = SetCurrentTime(video, activeClip.startSeconds)
    /\ lastOp' = [Op("onStop") EXCEPT !.clip = recorders[k].clip.id]
    /\ UNCHANGED << activeClip, currentClipId, showCaptions, isPlaying, currentTime,
                    progress, mediaRecorderRef, recordedChunks, canvas,
                    renderLoop, app >>

\* recorder.onstop, lines 299-319, of recorder k
OnStop(k) ==
    /\ recorders[k].pending = "stop"
    /\ recorders' = [recorders EXCEPT ![k] = Finished(@)]
    /\ downloads' = [count |-> downloads.count + 1,
                     last |-> [name |-> DownloadName(recorders[k].clip.title),
                               blob |-> recordedChunks, recorder |-> k,
                               clip |-> recorders[k].clip.id,
                               audio |-> recorders[k].audio,
                               boundaryTicks |-> recorders[k].boundaryTicks,
                               delivered |-> recorders[k].delivered,
                               chunks |-> recorders[k].chunks]]
    /\ isExporting' = FALSE
    /\ exportProgress' = Zero
    /\ video' = SetCurrentTime(video, recorders[k].clip.startSeconds)
    /\ lastOp' = [Op("onStop") EXCEPT !.clip = recorders[k].clip.id]
    /\ UNCHANGED << activeClip, currentClipId, showCaptions, isPlaying, currentTime,
                    progress, mediaRecorderRef, recordedChunks, canvas,
                    renderLoop, app >>

----------------------------------------------------------------------------
(* The platform: playback of the source *)

\* the playing video advances by a tenth of a second, once playback has begun
Advance ==
    /\ ~ video.paused
    /\ video.promise # "pending"
    /\ video.playback # "pending"
    /\ video.currentTime < VideoDuration
    /\ video' = [video EXCEPT !.currentTime = @ + 1]
    /\ recorders' = [k \in DOMAIN recorders |->
                        IF /\ isExporting /\ k = mediaRecorderRef
                           /\ recorders[k].state = "recording"
                           /\ recorders[k].played < ClipDuration(recorders[k].clip)
                        THEN [recorders[k] EXCEPT !.played = @ + 1]
                        ELSE recorders[k]]
    /\ lastOp' = Op("other")
    /\ UNCHANGED << activeClip, currentClipId, showCaptions, isPlaying, currentTime,
                    progress, isExporting, exportProgress, mediaRecorderRef,
                    recordedChunks, downloads, canvas,
                    renderLoop, app >>

\* playback has begun: the pending play() promises are fulfilled
Playing ==
    /\ video.promise = "pending" \/ video.playback = "pending"
    /\ video' = [video EXCEPT !.promise = IF @ = "pending" THEN "none" ELSE @,
                              !.playback = IF @ = "pending" THEN "none" ELSE @]
    /\ lastOp' = Op("other")
    /\ UNCHANGED << activeClip, currentClipId, showCaptions, isPlaying, currentTime,
                    progress, isExporting, exportProgress, mediaRecorderRef,
                    recorders, recordedChunks, downloads, canvas,
                    renderLoop, app >>

\* the playing video reaches its end: the element pauses itself
Ended ==
    /\ ~ video.paused
    /\ video.currentTime = VideoDuration
    /\ video' = Pause(video)
    /\ lastOp' = Op("other")
    /\ UNCHANGED << activeClip, currentClipId, showCaptions, isPlaying, currentTime,
                    progress, isExporting, exportProgress, mediaRecorderRef,
                    recorders, recordedChunks, downloads, canvas,
                    renderLoop, app >>

Next ==
    \/ InitialClipEffect
    \/ HandleTimeUpdate
    \/ \E clip \in ClipSet, accepted \in BOOLEAN : PlayClip(clip, accepted)
    \/ \E accepted \in BOOLEAN : TogglePlay(accepted)
    \/ \E newPercentage \in SeekPercents : HandleSeek(newPercentage)
    \/ \E accepted \in BOOLEAN, audio \in AudioOutcomes :
          HandleDownloadClip(accepted, audio)
    \/ \E clip \in ClipSet : IgnoredClipClick(clip)
    \/ OnMediaEvent
    \/ ExportPlayAborted
    \/ \E k \in DOMAIN recorders, size \in {0, 1} : OnDataAvailable(k, size)
    \/ \E k \in DOMAIN recorders : OnStop(k)
    \/ Advance
    \/ Playing
    \/ Ended

Spec == Init /\ [][Next]_vars

----------------------------------------------------------------------------
(* The playback controller on its own, with the play() promises of playClip
   and togglePlay and their catch handlers *)

InitPlayback ==
    /\ InitComponent
    /\ activeClip = NoClip
    /\ showCaptions = TRUE
    /\ video = [currentTime |-> 0, paused |-> TRUE, events |-> << >>,
                timeupdate |-> FALSE, promise |-> "none", playback |-> "none"]

NextPlayback ==
    \/ InitialClipEffect
    \/ HandleTimeUpdate
    \/ \E clip \in ClipSet, accepted \in BOOLEAN : PlayClip(clip, accepted)
    \/ \E accepted \in BOOLEAN : TogglePlay(accepted)
    \/ \E newPercentage \in SeekPercents : HandleSeek(newPercentage)
    \/ OnMediaEvent
    \/ PlaybackFailed
    \/ Advance
    \/ Playing
    \/ Ended

SpecPlayback == InitPlayback /\ [][NextPlayback]_vars

----------------------------------------------------------------------------
(* The component with one clip of any length active, a zero-length clip
   among them *)

\* clips whose endSeconds is their startSeconds, and one of two tenths
EdgeClips ==
    { Clip("z0", << "Z" >>, 0, 0, << >>),
      Clip("z2", << "Z" >>, 2, 2, << >>),
      Clip("n2", << "N" >>, 2, 4, << >>) }

\* the component after the effect of lines 32-43 made clips[0] the active clip
InitEdge ==
    /\ activeClip \in EdgeClips
    /\ currentClipId = activeClip.id
    /\ showCaptions = TRUE
    /\ isPlaying = FALSE
    /\ currentTime = 0
    /\ progress = Zero
    /\ isExporting = FALSE
    /\ exportProgress = Zero
    /\ mediaRecorderRef = 0
    /\ recorders = << >>
    /\ recordedChunks = << >>
    /\ downloads = [count |-> 0, last |-> NoDownload]
    /\ canvas = Blank
    /\ renderLoop = NoLoop
    /\ app = NoApp
    /\ video = [currentTime |-> activeClip.startSeconds, paused |-> TRUE,
                events |-> << >>, timeupdate |-> TRUE, promise |-> "none",
                playback |-> "off"]
    /\ lastOp = [Op("initialClip") EXCEPT !.clip = activeClip.id]

NextEdge ==
    \/ HandleTimeUpdate
    \/ \E accepted \in BOOLEAN : TogglePlay(accepted)
    \/ \E newPercentage \in SeekPercents : HandleSeek(newPercentage)
    \/ \E accepted \in BOOLEAN, audio \in AudioOutcomes : HandleDownloadClip(accepted, audio)
    \/ OnMediaEvent
    \/ ExportPlayAborted
    \/ \E k \in DOMAIN recorders, size \in {0, 1} : OnDataAvailable(k, size)
    \/ \E k \in DOMAIN recorders : OnStop(k)
    \/ Advance
    \/ Playing
    \/ Ended

SpecEdge == InitEdge /\ [][NextEdge]_vars

----------------------------------------------------------------------------
(* The render loop on its own: one clip, the video at any position *)

\* render(), lines 58-176, with the video and the canvas mounted
Render ==
    /\ canvas' = Frame(activeClip, showCaptions, video.currentTime)
    /\ lastOp' = [Op("render") EXCEPT !.clip = activeClip.id, !.pos = video.currentTime]
    /\ UNCHANGED showCaptions
    /\ NoComponentChange

\* the CC button, line 443
ToggleCaptions ==
    /\ showCaptions' = ~ showCaptions
    /\ lastOp' = Op("other")
    /\ UNCHANGED canvas
    /\ NoComponentChange

\* the positions SpecRender lets the video take for a clip: from the clip's
\* start (every handler that sets the position sets it there or later) to just
\* after the last boundary of the clip and its captions (playback runs past the
\* clip's end until the next timeupdate event)
RenderTimes(clip) ==
    LET bounds == { clip.captions[i].startSeconds : i \in 1..Len(clip.captions) }
                  \cup { clip.captions[i].endSeconds : i \in 1..Len(clip.captions) }
                  \cup { clip.startSeconds, clip.endSeconds }
        hi == CHOOSE x \in bounds : \A y \in bounds : x >= y
    IN  clip.startSeconds .. (hi + 1)

\* the video moves on by a tenth of a second
RenderAdvance ==
    /\ video.currentTime + 1 \in RenderTimes(activeClip)
    /\ video' = [video EXCEPT !.currentTime = @ + 1]
    /\ lastOp' = Op("other")
    /\ UNCHANGED << activeClip, currentClipId, showCaptions, isPlaying, currentTime,
                    progress, isExporting, exportProgress, mediaRecorderRef,
                    recorders, recordedChunks, downloads, canvas,
                    renderLoop, app >>

\* caption lists of up to two captions with any boundaries in 0..MaxCapT
Windows == { Caption(<< "a" >>, s, e) : s \in 0..MaxCapT, e \in 0..MaxCapT }

CaptionLists ==
    { << >> } \cup { << c >> : c \in Windows }
              \cup { << c, d >> : c \in Windows, d \in Windows }

\* caption texts of up to MaxTextLen letters and blanks, and one with other
\* white space
Texts ==
    UNION { [1..n -> {"a", " "}] : n \in 0..MaxTextLen }
    \cup { << "a", "\t", "U+00A0", "b" >> }

\* the caption of the scenario: "this is a test" from 12.0 s to 16.0 s in a clip
\* from 10.0 s to 40.0 s
ScenarioCaption ==
    Caption(<< "t", "h", "i", "s", " ", "i", "s", " ", "a", " ", "t", "e", "s", "t" >>,
            120, 160)

ScenarioClip == Clip("scenario", << "S" >>, 100, 400, << ScenarioCaption >>)

\* clips "r" hold any caption list; clips "o" are shorter than the range of
\* caption boundaries, so that captions can lie outside the clip's window
RenderClips ==
    { Clip("r", << >>, 0, MaxCapT, captions) : captions \in CaptionLists }
    \cup { Clip("o", << >>, 2, MaxCapT - 1, captions) : captions \in CaptionLists }
    \cup { Clip("w", << >>, 0, d, << Caption(text, 0, d) >>) :
              text \in Texts, d \in 0..MaxWordD }
    \cup { ScenarioClip }

InitRender ==
    /\ InitComponent
    /\ activeClip \in RenderClips
    /\ showCaptions \in BOOLEAN
    /\ \E t \in RenderTimes(activeClip) :
          video = [currentTime |-> t, paused |-> TRUE, events |-> << >>,
                   timeupdate |-> FALSE, promise |-> "none", playback |-> "off"]

NextRender ==
    \/ Render
    \/ ToggleCaptions
    \/ RenderAdvance

SpecRender == InitRender /\ [][NextRender]_vars

----------------------------------------------------------------------------
(* Properties *)

Hundred == Frac(100, 1)

RecorderIds == DOMAIN recorders

C2_NoFinalizeBeforeDuration ==
    \A k \in RecorderIds : ~ recorders[k].early

\* the captions are in order and their windows [startSeconds, endSeconds) are
\* non-empty and do not overlap
OrderedWindows(captions) ==
    /\ \A i \in 1..Len(captions) : captions[i].startSeconds < captions[i].endSeconds
    /\ \A i \in 1..Len(captions), j \in 1..Len(captions) :
          i < j => captions[i].endSeconds <= captions[j].startSeconds

InHalfOpenWindow(c, t) == c.startSeconds <= t /\ t < c.endSeconds

\* C3: what render() resolves, for captions in order with windows that do not
\* overlap: the caption c whenever c.startSeconds <= t < c.endSeconds (also
\* when the caption before c ends where c starts), and none whenever t is
\* outside every window [startSeconds, endSeconds)
C3_ResolverHalfOpen ==
    (lastOp.op = "render" /\ showCaptions /\ OrderedWindows(activeClip.captions)) =>
        LET captions == activeClip.captions
            t == video.currentTime
        IN  /\ \A i \in 1..Len(captions) :
                  InHalfOpenWindow(captions[i], t) => canvas.captionIndex = i - 1
            /\ (\A i \in 1..Len(captions) : ~ InHalfOpenWindow(captions[i], t))
                  => canvas.captionIndex = -1

\* C4: the highlighted word never moves back within a caption: when render()
\* highlights word w of a caption at time t, no earlier time of the caption's
\* window highlights a word after w
C4_ActiveWordMonotone ==
    (lastOp.op = "render" /\ canvas.captionIndex # -1 /\ canvas.activeWordIndex # -1) =>
        LET c == activeClip.captions[canvas.captionIndex + 1]
        IN  \A t1 \in c.startSeconds .. video.currentTime :
                ActiveWordIndex(c, t1) # -1
                    => ActiveWordIndex(c, t1) <= canvas.activeWordIndex

\* the second word is highlighted at a time after the first word was
C4_Witness ==
    /\ lastOp.op = "render"
    /\ canvas.captionIndex = 0
    /\ canvas.activeWordIndex = 1
    /\ video.currentTime > activeClip.captions[1].startSeconds
    /\ ActiveWordIndex(activeClip.captions[1], activeClip.captions[1].startSeconds) = 0

\* the number of characters before word i in the heuristic: the lengths of the
\* earlier words, plus one for each
RECURSIVE CharsBefore(_, _)
CharsBefore(words, i) ==
    IF i = 1 THEN 0 ELSE CharsBefore(words, i - 1) + Len(words[i - 1]) + 1

\* the active word as specified: with D the caption's duration, T = t - start
\* and perChar = D / max(1, text length), the first word i whose window
\* [acc_i * perChar, (acc_i + len_i + 1) * perChar) contains T, else the last
\* word if T >= 0.9 * D, else none (0-based, -1 for none)
SpecifiedActiveWord(c, t) ==
    LET words == Words(c.text)
        D == c.endSeconds - c.startSeconds
        T == t - c.startSeconds
        chars == IF Len(c.text) >= 1 THEN Len(c.text) ELSE 1
        InWordWindow(i) ==
            /\ CharsBefore(words, i) * D <= T * chars
            /\ T * chars < (CharsBefore(words, i) + Len(words[i]) + 1) * D
        hits == { i \in 1..Len(words) : InWordWindow(i) }
    IN  IF hits # {} THEN (CHOOSE i \in hits : \A j \in hits : i <= j) - 1
        ELSE IF 10 * T >= 9 * D THEN Len(words) - 1
        ELSE -1

\* C5: the word render() highlights in the active caption is the one the
\* specified heuristic gives; for "this is a test" over [12 s, 16 s] it is
\* "this" at 12.0 s and "test" at 15.9 s
C5_ActiveWordHeuristic ==
    (lastOp.op = "render" /\ canvas.captionIndex # -1) =>
        LET c == activeClip.captions[canvas.captionIndex + 1]
            t == video.currentTime
        IN  /\ canvas.activeWordIndex = SpecifiedActiveWord(c, t)
            /\ (c = ScenarioCaption /\ t = 120) =>
                  /\ canvas.activeWordIndex = 0
                  /\ Words(c.text)[1] = << "t", "h", "i", "s" >>
            /\ (c = ScenarioCaption /\ t = 159) =>
                  /\ canvas.activeWordIndex = 3
                  /\ Words(c.text)[4] = << "t", "e", "s", "t" >>

\* the scenario's caption drawn at 15.9 s with its fourth word highlighted
C5_Witness ==
    /\ lastOp.op = "render"
    /\ activeClip = ScenarioClip
    /\ video.currentTime = 159
    /\ canvas.captionIndex = 0
    /\ canvas.activeWordIndex = 3

\* C6: for a clip with endSeconds > startSeconds, the progress a timeupdate
\* event at position t stores is 0% at t = startSeconds, 100% at
\* t = endSeconds, and for t in the clip greater than the progress of every
\* earlier position of the clip
C6_ProgressRatio ==
    (/\ lastOp.op = "timeUpdate"
     /\ activeClip # NoClip
     /\ activeClip.endSeconds > activeClip.startSeconds) =>
        LET t == lastOp.pos
        IN  /\ t = activeClip.startSeconds => progress = Zero
            /\ t = activeClip.endSeconds => progress = Hundred
            /\ \A t1 \in activeClip.startSeconds .. activeClip.endSeconds :
                  (t1 < t /\ t <= activeClip.endSeconds)
                      => FracLess(ProgressPercent(activeClip, t1), progress)

\* a timeupdate event strictly inside the clip stored a progress strictly
\* between 0% and 100%
C6_Witness ==
    /\ lastOp.op = "timeUpdate"
    /\ activeClip # NoClip
    /\ activeClip.startSeconds + 1 < lastOp.pos
    /\ lastOp.pos < activeClip.endSeconds
    /\ FracLess(Zero, progress)
    /\ FracLess(progress, Hundred)

\* C7: the stored playback progress and export progress always lie in [0%, 100%]
C7_ProgressClamped ==
    /\ FracLeq(Zero, progress) /\ FracLeq(progress, Hundred)
    /\ FracLeq(Zero, exportProgress) /\ FracLeq(exportProgress, Hundred)

ProgressState == << activeClip, video.currentTime, currentTime, progress >>

\* C8: playClip of the clip that playClip has just selected leaves the active
\* clip, the source position, the relative time and the progress as they were:
\* that clip, its startSeconds, 0 and 0%
C8_SelectIdempotent ==
    [][ (lastOp.op \in SelectOps /\ lastOp'.op \in SelectOps /\ lastOp'.again) =>
            /\ ProgressState' = ProgressState
            /\ ProgressState' = << activeClip', activeClip'.startSeconds, 0, Zero >>
            /\ activeClip'.id = lastOp.clip ]_vars

\* a clip selected twice in a row after its progress had moved
C8_Witness ==
    /\ lastOp.op \in SelectOps
    /\ lastOp.again
    /\ activeClip.id = "c2"
    /\ progress = Zero

\* C9 as stated: after playClip the controller is Stopped, with the source
\* paused at the clip's start and relative time and progress 0
C9_SelectLeavesStopped ==
    lastOp.op \in SelectOps =>
        /\ activeClip.id = lastOp.clip
        /\ video.currentTime = activeClip.startSeconds
        /\ currentTime = 0
        /\ progress = Zero
        /\ video.paused
        /\ ~ isPlaying

\* C9 as amended: after playClip(c) the active clip is c, the source is at
\* c.startSeconds, relative time and progress are 0, and playback was
\* requested: once the platform has accepted play(), the source is playing
C9_SelectStartsPlayback ==
    lastOp.op \in SelectOps =>
        /\ activeClip.id = lastOp.clip
        /\ activeClip \in ClipSet
        /\ currentClipId = lastOp.clip
        /\ video.currentTime = activeClip.startSeconds
        /\ currentTime = 0
        /\ progress = Zero
        /\ lastOp.op = "playClip" => ~ video.paused

\* the second clip selected while the source was paused: it is now playing
C9_Witness ==
    /\ lastOp.op = "playClip"
    /\ activeClip.id = "c2"
    /\ ~ video.paused
    /\ ~ isPlaying
    /\ video.events = << "play" >>

TitleOf(id) == (CHOOSE c \in ClipSet : c.id = id).title

Extension == << ".", "w", "e", "b", "m" >>

\* C10: the name of a saved file is the title of the export's clip with every
\* code unit that is not an ASCII letter or digit replaced by one underscore,
\* letters and digits kept in place, followed by ".webm": before the extension
\* it has the title's length and holds only letters, digits and underscores
C10_FileName ==
    downloads.count > 0 =>
        LET name == downloads.last.name
            title == TitleOf(downloads.last.clip)
        IN  /\ Len(name) = Len(title) + Len(Extension)
            /\ SubSeq(name, Len(title) + 1, Len(name)) = Extension
            /\ \A i \in 1..Len(title) :
                  /\ name[i] = IF title[i] \in Lower \cup Upper \cup Digit
                               THEN title[i] ELSE "_"
                  /\ name[i] \in Lower \cup Upper \cup Digit \cup {"_"}

\* a file saved for the clip whose title holds an upper-case letter, an
\* underscore and code units outside ASCII
C10_Witness ==
    /\ downloads.count > 0
    /\ downloads.last.clip = "c2"
    /\ downloads.last.name = << "_", "_", "Z", "_", "_", ".", "w", "e", "b", "m" >>

EndOps == {"onStop", "exportAborted"}

\* C11: once an export has ended, by its onstop handler or by the catch handler
\* of its play() promise, and its callbacks have been delivered, no export is in
\* progress, the source is paused and isPlaying is false, as the source is
C11_ExportEndsIdleStopped ==
    (lastOp.op \in EndOps /\ PendingCallbacks = 0) =>
        /\ ~ isExporting
        /\ video.paused
        /\ ~ isPlaying

C13_RejectedPlayAbortsExport ==
    lastOp.op = "exportAborted" =>
        /\ ~ isExporting
        /\ exportProgress = Zero
        /\ recordedChunks = << >>
        /\ mediaRecorderRef # 0 =>
              /\ recorders[mediaRecorderRef].state # "recording"
              /\ recorders[mediaRecorderRef].pending = "none"
              /\ recorders[mediaRecorderRef].saved = 0

\* the export in progress has a capture: a recorder that is recording, or one
\* that was stopped and whose events are still to be delivered
ActiveCapture ==
    /\ mediaRecorderRef # 0
    /\ \/ recorders[mediaRecorderRef].state = "recording"
       \/ recorders[mediaRecorderRef].pending # "none"

\* C14: a Start export that cannot obtain the stream of the video still starts
\* a recording, and an export is never in progress without an active capture
C14_AudioFailureProceeds ==
    /\ lastOp.op = "downloadAudioFailed" => ActiveCapture
    /\ isExporting => ActiveCapture

\* C15: after a timeupdate event at or past the active clip's end while no
\* export is in progress, the source is paused at the clip's start and
\* isPlaying is false: the clip does not start over by itself
C15_BoundaryStopsPlayback ==
    (/\ lastOp.op = "timeUpdate"
     /\ activeClip # NoClip
     /\ lastOp.pos >= activeClip.endSeconds
     /\ ~ isExporting) =>
        /\ video.paused
        /\ video.currentTime = activeClip.startSeconds
        /\ ~ isPlaying

\* the playing clip ran past its end: the tick paused the source, whose pause
\* event is due, and put it back at the clip's start
C15_Witness ==
    /\ lastOp.op = "timeUpdate"
    /\ activeClip.id = "c1"
    /\ lastOp.pos > activeClip.endSeconds
    /\ ~ isExporting
    /\ video.paused
    /\ video.events = << "pause" >>
    /\ video.currentTime = activeClip.startSeconds

\* C16: Start export leaves an export in progress with export progress 0%, an
\* empty buffer and the source sought to the active clip's start.  The source
\* was paused before the recorder and playback were started: a pause event,
\* if any, comes before the play event, and the new recorder has recorded no
\* playback yet
C16_StartExportPrepares ==
    lastOp.op \in StartOps =>
        /\ isExporting
        /\ exportProgress = Zero
        /\ recordedChunks = << >>
        /\ activeClip.id = lastOp.clip
        /\ video.currentTime = activeClip.startSeconds
        /\ video.timeupdate
        /\ lastOp.op \in AcceptedOps =>
              /\ ~ video.paused
              /\ video.promise = "pending"
              /\ video.events \in { << "play" >>, << "pause", "play" >> }
        /\ lastOp.op \notin AcceptedOps =>
              /\ video.paused
              /\ video.events \in { << >>, << "pause" >> }
        /\ lastOp.op # "downloadAudioFailed" =>
              /\ mediaRecorderRef = Len(recorders)
              /\ recorders[mediaRecorderRef].state = "recording"
              /\ recorders[mediaRecorderRef].clip = activeClip
              /\ recorders[mediaRecorderRef].played = 0

\* a second export, started while the clip was playing and the buffer still
\* held the chunk of the first export
C16_Witness ==
    /\ lastOp.op = "download"
    /\ downloads.count = 1
    /\ downloads.last.blob # << >>
    /\ recordedChunks = << >>
    /\ video.events = << "pause", "play" >>
    /\ mediaRecorderRef = 2

ClipById(id) == CHOOSE c \in ClipSet : c.id = id

\* C17: the onstop handler of an export leaves no export in progress, the
\* export progress at 0% and the source at the start of the exported clip, with
\* one more file saved; and once no export is in progress, only a new Start
\* export or that completion changes isExporting or the export progress
C17_StopCompletesToIdle ==
    [][ /\ lastOp'.op = "onStop" =>
              /\ ~ isExporting'
              /\ exportProgress' = Zero
              /\ video'.currentTime = ClipById(lastOp'.clip).startSeconds
              /\ downloads'.count = downloads.count + 1
              /\ downloads'.last.clip = lastOp'.clip
        /\ (~ isExporting /\ (isExporting' \/ exportProgress' # exportProgress))
              => lastOp'.op \in StartOps \cup {"onStop"} ]_vars

\* the export of the first clip has completed after a tick at the clip's end:
\* playback progress still shows 100%, the export progress is back at 0% and
\* the source is at the clip's start
C17_Witness ==
    /\ lastOp.op = "onStop"
    /\ lastOp.clip = "c1"
    /\ ~ isExporting
    /\ exportProgress = Zero
    /\ progress = Hundred
    /\ video.currentTime = ClipsProp[1].startSeconds
    /\ downloads.count = 1

\* the window of caption c has no point in common with the window of the clip
OutsideClip(c, clip) ==
    c.endSeconds < clip.startSeconds \/ c.startSeconds > clip.endSeconds

AllOutsideClip(clip) ==
    \A i \in 1..Len(clip.captions) : OutsideClip(clip.captions[i], clip)

\* C18: every render() draws the frame at the source position, and
\* resolves no caption when the clip has no captions or all its captions lie
\* outside the clip's window
C18_OutsideCaptionsInactive ==
    lastOp.op = "render" =>
        /\ canvas.drawn
        /\ canvas.frame = video.currentTime
        /\ (activeClip.captions = << >> \/ AllOutsideClip(activeClip))
              => canvas.captionIndex = -1

\* the captions whose window contains t, both ends included
Containing(captions, t) ==
    { i \in 1..Len(captions) :
          captions[i].startSeconds <= t /\ t <= captions[i].endSeconds }

\* C19: with captions shown, render() resolves the first caption of the list
\* whose window contains the source position, both ends included: the earlier
\* one of captions that overlap or touch there, and none when no window
\* contains the position
C19_ResolverFirstInclusive ==
    (lastOp.op = "render" /\ showCaptions) =>
        LET hits == Containing(activeClip.captions, video.currentTime)
        IN  /\ hits = {} => canvas.captionIndex = -1
            /\ hits # {} =>
                  /\ canvas.captionIndex + 1 \in hits
                  /\ \A i \in hits : canvas.captionIndex + 1 <= i

\* two captions that touch, drawn at the boundary they share: the earlier one
\* is resolved
C19_Witness ==
    /\ lastOp.op = "render"
    /\ showCaptions
    /\ Len(activeClip.captions) = 2
    /\ activeClip.captions[1].startSeconds < video.currentTime
    /\ activeClip.captions[1].endSeconds = video.currentTime
    /\ activeClip.captions[2].startSeconds = video.currentTime
    /\ activeClip.captions[2].endSeconds > video.currentTime
    /\ canvas.captionIndex = 0

\* C20: whenever render() resolves a caption, it highlights one of its words
C20_NoDeadStretch ==
    (lastOp.op = "render" /\ canvas.captionIndex # -1) => canvas.activeWordIndex # -1

----------------------------------------------------------------------------
(* The render effect, lines 57-183: when its loop is started, cancelled and
   torn down *)

\* the dependencies [activeClip, showCaptions] of the render effect, as the
\* component holds them now
CurrentDeps == << activeClip.id, showCaptions >>

\* the callbacks that cancelAnimationFrame(handle) leaves pending
CancelAnimationFrame(pending, handle) == { p \in pending : p.handle # handle }

\* the cleanup of lines 180-182: nothing when animationFrameRef.current is null
Cleanup(loop) ==
    IF loop.animationFrameRef # 0
    THEN [loop EXCEPT !.pending = CancelAnimationFrame(@, loop.animationFrameRef)]
    ELSE loop

\* line 175 in a render() whose closure holds clip and captionsOn:
\* requestAnimationFrame(render) returns a new handle, kept in animationFrameRef
RequestAnimationFrame(loop, clip, captionsOn) ==
    [loop EXCEPT !.issued = @ + 1,
                 !.animationFrameRef = loop.issued + 1,
                 !.pending = @ \cup { [handle |-> loop.issued + 1, clip |-> clip,
                                       captionsOn |-> captionsOn] }]

RenderEffectWithoutCleanup ==
    /\ renderLoop.mounted
    /\ renderLoop.deps # CurrentDeps
    /\ renderLoop.issued < MaxFrames
    /\ renderLoop' = [RequestAnimationFrame(renderLoop, activeClip, showCaptions)
                        EXCEPT !.deps = CurrentDeps]
    /\ canvas' = Frame(activeClip, showCaptions, video.currentTime)
    /\ lastOp' = [Op("render") EXCEPT !.clip = activeClip.id, !.pos = video.currentTime]
    /\ UNCHANGED << activeClip, currentClipId, showCaptions, isPlaying, currentTime,
                    progress, isExporting, exportProgress, video, mediaRecorderRef,
                    recorders, recordedChunks, downloads, app >>

\* the render effect runs: after the first render of the component and after
\* every render that changed activeClip or showCaptions.  The cleanup of the
\* previous run comes first (lines 180-182), then render() is called (line 178)
RenderEffect ==
    /\ renderLoop.mounted
    /\ renderLoop.deps # CurrentDeps
    /\ renderLoop.issued < MaxFrames
    /\ renderLoop' = [RequestAnimationFrame(IF renderLoop.deps = << >> THEN renderLoop
                                            ELSE Cleanup(renderLoop),
                                            activeClip, showCaptions)
                        EXCEPT !.deps = CurrentDeps]
    /\ canvas' = Frame(activeClip, showCaptions, video.currentTime)
    /\ lastOp' = [Op("render") EXCEPT !.clip = activeClip.id, !.pos = video.currentTime]
    /\ UNCHANGED << activeClip, currentClipId, showCaptions, isPlaying, currentTime,
                    progress, isExporting, exportProgress, video, mediaRecorderRef,
                    recorders, recordedChunks, downloads, app >>

AnimationFrameSyncsPlayState ==
    \E p \in renderLoop.pending :
        /\ renderLoop.issued < MaxFrames
        /\ renderLoop' = RequestAnimationFrame(
                             [renderLoop EXCEPT !.pending = @ \ { p }],
                             p.clip, p.captionsOn)
        /\ canvas' = IF renderLoop.mounted
                     THEN Frame(p.clip, p.captionsOn, video.currentTime)
                     ELSE canvas
        /\ isPlaying' = ~ video.paused
        /\ lastOp' = [Op("render") EXCEPT !.clip = p.clip.id, !.pos = video.currentTime]
        /\ UNCHANGED << activeClip, currentClipId, showCaptions, currentTime,
                        progress, isExporting, exportProgress, video, mediaRecorderRef,
                        recorders, recordedChunks, downloads, app >>

\* the browser runs a pending callback: render() with the closure of the
\* effect run that made it (lines 58-176).  Once the component is unmounted
\* videoRef.current is null and nothing is drawn (line 59)
AnimationFrame ==
    \E p \in renderLoop.pending :
        /\ renderLoop.issued < MaxFrames
        /\ renderLoop' = RequestAnimationFrame(
                             [renderLoop EXCEPT !.pending = @ \ { p }],
                             p.clip, p.captionsOn)
        /\ canvas' = IF renderLoop.mounted
                     THEN Frame(p.clip, p.captionsOn, video.currentTime)
                     ELSE canvas
        /\ lastOp' = [Op("render") EXCEPT !.clip = p.clip.id, !.pos = video.currentTime]
        /\ UNCHANGED << activeClip, currentClipId, showCaptions, isPlaying, currentTime,
                        progress, isExporting, exportProgress, video, mediaRecorderRef,
                        recorders, recordedChunks, downloads, app >>

\* the component is unmounted (onReset of line 350, disabled while exporting):
\* the cleanup of the effect's last run is called
Unmount ==
    /\ renderLoop.mounted
    /\ renderLoop.deps # << >>
    /\ ~ isExporting
    /\ renderLoop' = [Cleanup(renderLoop) EXCEPT !.mounted = FALSE]
    /\ lastOp' = Op("unmount")
    /\ UNCHANGED << activeClip, currentClipId, showCaptions, isPlaying, currentTime,
                    progress, isExporting, exportProgress, video, mediaRecorderRef,
                    recorders, recordedChunks, downloads, canvas, app >>

\* the state changes of the mounted component that matter to the loop.  The
\* effects of the first render run in the order of their declaration with the
\* state of that render, so the render effect has run when the state set by
\* the effect of lines 32-43 arrives
Handlers ==
    /\ renderLoop.mounted
    /\ renderLoop.deps # << >>
    /\ \/ InitialClipEffect
       \/ \E clip \in ClipSet, accepted \in BOOLEAN : PlayClip(clip, accepted)
       \/ \E accepted \in BOOLEAN : TogglePlay(accepted)
       \/ ToggleCaptions
       \/ HandleTimeUpdate
       \/ OnMediaEvent
       \/ Advance
       \/ Ended

NextLoop ==
    \/ RenderEffect
    \/ AnimationFrame
    \/ Unmount
    \/ Handlers

SpecLoop == Init /\ [][NextLoop]_vars

----------------------------------------------------------------------------
(* The App component (src/services/geminiService.ts, lines 196-254): choosing
   a file, its analysis, and reset *)

ComponentVars == << activeClip, currentClipId, showCaptions, isPlaying, currentTime,
                    progress, isExporting, exportProgress, video, mediaRecorderRef,
                    recorders, recordedChunks, downloads, canvas, renderLoop >>

\* handleProcessStart, lines 205-226, from the uploader, which is rendered in
\* state IDLE (lines 334-346), followed by the synchronous part of
\* handleAnalysis, lines 229-230.  tooLarge: the file is over 250 MB
HandleProcessStart(tooLarge) ==
    /\ app.appState = "IDLE"
    /\ app.files < MaxFiles
    /\ app' = IF tooLarge THEN app
              ELSE [app EXCEPT !.appState = "ANALYZING",
                               !.videoUrl = app.files + 1,
                               !.error = FALSE,
                               !.pending = @ \cup { app.files + 1 },
                               !.files = @ + 1]
    /\ lastOp' = [Op(IF tooLarge THEN "fileTooLarge" ELSE "processStart")
                    EXCEPT !.pos = app.files + 1]
    /\ UNCHANGED ComponentVars

\* handleAnalysis after its await, lines 233-235: the analysis of file has
\* returned its clips
AnalysisResolved(file) ==
    /\ file \in app.pending
    /\ app' = [app EXCEPT !.pending = @ \ { file }, !.clips = file,
                          !.appState = "RESULTS"]
    /\ lastOp' = [Op("analysisResolved") EXCEPT !.pos = file]
    /\ UNCHANGED ComponentVars

\* handleAnalysis after its await, lines 236-243: the analysis of file has
\* thrown
AnalysisRejected(file) ==
    /\ file \in app.pending
    /\ app' = [app EXCEPT !.pending = @ \ { file }, !.error = TRUE,
                          !.appState = "ERROR"]
    /\ lastOp' = [Op("analysisRejected") EXCEPT !.pos = file]
    /\ UNCHANGED ComponentVars

\* resetApp, lines 246-254: from the logo of the navbar (line 263) in any
\* state, from Process Another Video and from Try Again
ResetApp ==
    /\ app' = [app EXCEPT !.appState = "IDLE", !.videoUrl = 0, !.clips = 0,
                          !.error = FALSE]
    /\ lastOp' = Op("resetApp")
    /\ UNCHANGED ComponentVars

NextApp ==
    \/ \E tooLarge \in BOOLEAN : HandleProcessStart(tooLarge)
    \/ \E file \in 1..MaxFiles : AnalysisResolved(file)
    \/ \E file \in 1..MaxFiles : AnalysisRejected(file)
    \/ ResetApp

SpecApp == Init /\ [][NextApp]_vars

----------------------------------------------------------------------------
(* Seek *)

\* C21: after handleSeek with a percentage of 0..100 on an active clip, the
\* video is at startSeconds + (endSeconds - startSeconds) * percentage / 100,
\* a position inside [startSeconds, endSeconds]; progress is the percentage and
\* the relative time is that position minus startSeconds
C21_SeekRepositions ==
    (lastOp.op = "seek" /\ activeClip # NoClip /\ lastOp.pos \in 0..100) =>
        /\ video.currentTime * 100
             = activeClip.startSeconds * 100 + ClipDuration(activeClip) * lastOp.pos
        /\ video.currentTime >= activeClip.startSeconds
        /\ video.currentTime <= activeClip.endSeconds
        /\ progress = Frac(lastOp.pos, 1)
        /\ currentTime = video.currentTime - activeClip.startSeconds

C21_Witness ==
    /\ lastOp.op = "seek"
    /\ activeClip # NoClip
    /\ lastOp.pos = 50
    /\ activeClip.startSeconds > 0
    /\ video.currentTime > activeClip.startSeconds
    /\ currentTime = video.currentTime - activeClip.startSeconds

----------------------------------------------------------------------------
(* Captures *)

\* the MediaRecorder objects whose state is "recording"
RecordingCaptures == { k \in DOMAIN recorders : recorders[k].state = "recording" }

\* C22: at most one capture is recording at any time
C22_OneRecording == Cardinality(RecordingCaptures) <= 1

\* C23: when the video has no audio track, handleDownloadClip starts the
\* recorder on the canvas stream alone and starts playback like an export with
\* audio; the recorder of such an export, once stopped, makes its one download
\* under the clip's file name and ends the export
C23_NoAudioExports ==
    /\ lastOp.op = "downloadNoAudio" =>
          /\ isExporting
          /\ mediaRecorderRef # 0
          /\ mediaRecorderRef = Len(recorders)
          /\ recorders[mediaRecorderRef].state = "recording"
          /\ ~ recorders[mediaRecorderRef].audio
          /\ ~ video.paused
          /\ video.promise = "pending"
    /\ (lastOp.op = "onStop" /\ ~ downloads.last.audio) =>
          /\ ~ isExporting
          /\ downloads.last.clip = lastOp.clip
          /\ downloads.last.name = DownloadName(ClipById(lastOp.clip).title)
          /\ recorders[downloads.last.recorder].saved = 1
          /\ recorders[downloads.last.recorder].state = "inactive"

\* a video-only export that recorded a chunk and was saved
C23_Witness ==
    /\ lastOp.op = "onStop"
    /\ ~ downloads.last.audio
    /\ downloads.last.blob # << >>
    /\ downloads.last.recorder = mediaRecorderRef

----------------------------------------------------------------------------
(* Export progress *)

\* C24: a timeupdate event handled during an export sets the export progress
\* to the percentage of the clip played at the position of the event,
\* (position - startSeconds) / (endSeconds - startSeconds) * 100, the value the
\* playback progress gets from the same event
C24_ExportProgressFollowsTick ==
    (lastOp.op = "timeUpdate" /\ isExporting /\ activeClip # NoClip) =>
        /\ exportProgress = progress
        /\ IsNumber(exportProgress)
        /\ lastOp.pos >= activeClip.startSeconds =>
              exportProgress.num * ClipDuration(activeClip)
                = (lastOp.pos - activeClip.startSeconds) * 100 * exportProgress.den

\* a tick in the middle of a running capture
C24_Witness ==
    /\ lastOp.op = "timeUpdate"
    /\ isExporting
    /\ mediaRecorderRef # 0
    /\ recorders[mediaRecorderRef].state = "recording"
    /\ lastOp.pos > activeClip.startSeconds
    /\ lastOp.pos < activeClip.endSeconds
    /\ exportProgress = Frac(50, 1)

----------------------------------------------------------------------------
(* The boundary during an export *)

\* the recorder of mediaRecorderRef is recording
Recording == mediaRecorderRef # 0 /\ recorders[mediaRecorderRef].state = "recording"

\* the stop of the recorder of mediaRecorderRef is under way: stop() was
\* called and its onstop handler has not run yet
Stopping == mediaRecorderRef # 0 /\ recorders[mediaRecorderRef].pending # "none"

\* a tick at or past the clip's end while recording stops the recorder and
\* pauses the video in that step, and leaves the position where it is
StopsAndPausesAtBoundary ==
    ( /\ lastOp'.op = "timeUpdate"
      /\ isExporting /\ Recording /\ activeClip # NoClip
      /\ video.currentTime >= activeClip.endSeconds )
    => /\ recorders'[mediaRecorderRef].state = "inactive"
       /\ recorders'[mediaRecorderRef].stops = 1
       /\ video'.paused
       /\ video'.currentTime = video.currentTime

\* a tick during an export does not take the pause-and-rewind branch
NoRewindTickDuringExport ==
    (lastOp'.op = "timeUpdate" /\ isExporting)
    => /\ video'.currentTime = video.currentTime
       /\ isPlaying' = isPlaying

\* while the stop is under way no step moves the video
NoRewindBeforeStopCompletes ==
    (Stopping /\ Stopping') => video'.currentTime = video.currentTime

\* C25: a tick at or past endSeconds while recording stops the capture and
\* pauses the video in the same step; the video is not rewound to startSeconds
\* before the stop has completed, and ticks during an export never take the
\* pause-and-rewind branch
C25_BoundaryTickDuringExport ==
    [][ /\ StopsAndPausesAtBoundary
        /\ NoRewindTickDuringExport
        /\ NoRewindBeforeStopCompletes ]_vars

\* the first two parts of C25 alone
BoundaryTickStopsInPlace ==
    [][ StopsAndPausesAtBoundary /\ NoRewindTickDuringExport ]_vars

----------------------------------------------------------------------------
(* Progress of an export.  The browser delivers every queued event and runs
   every due callback, and a playing video keeps advancing and reporting its
   time; what the user does, and when, is left open *)

Fairness ==
    /\ WF_vars(HandleTimeUpdate)
    /\ WF_vars(OnMediaEvent)
    /\ WF_vars(ExportPlayAborted)
    /\ WF_vars(\E k \in DOMAIN recorders, size \in {0, 1} : OnDataAvailable(k, size))
    /\ WF_vars(\E k \in DOMAIN recorders : OnStop(k))
    /\ WF_vars(Advance)
    /\ WF_vars(Playing)
    /\ WF_vars(Ended)

SpecLive == Init /\ [][Next]_vars /\ Fairness

\* a timeupdate event handled during an export found the clip's end reached
BoundaryTickDuringExport ==
    /\ lastOp.op = "timeUpdate"
    /\ isExporting
    /\ activeClip # NoClip
    /\ lastOp.pos >= activeClip.endSeconds

\* C26: once the video has reported a position at or past the clip's end
\* during an export, the export comes to its end: isExporting becomes false
C26_ExportFinalizes == BoundaryTickDuringExport ~> ~ isExporting

----------------------------------------------------------------------------
(* The blob *)

\* how many elements of the sequence s are x
Count(s, x) == Cardinality({ i \in DOMAIN s : s[i] = x })

----------------------------------------------------------------------------
(* The render loop *)

\* C28: while no clip is active, no render callback is pending and no render
\* tick has run
C28_NoLoopWithoutClip ==
    activeClip = NoClip => (renderLoop.pending = {} /\ lastOp.op # "render")

\* C29: at most one render callback is pending, the one animationFrameRef
\* names; once the effect has run for the present activeClip and showCaptions,
\* no callback of an earlier run is left; and after the component is unmounted
\* no callback is pending and nothing runs any more
C29_OneLoop ==
    /\ Cardinality(renderLoop.pending) <= 1
    /\ \A p \in renderLoop.pending :
          /\ p.handle = renderLoop.animationFrameRef
          /\ renderLoop.deps = CurrentDeps =>
                (p.clip = activeClip /\ p.captionsOn = showCaptions)
    /\ ~ renderLoop.mounted => (renderLoop.pending = {} /\ lastOp.op = "unmount")

\* the component unmounted after the loop was restarted for another clip and
\* for hidden captions, with ticks in between
C29_Witness ==
    /\ ~ renderLoop.mounted
    /\ renderLoop.pending = {}
    /\ renderLoop.issued = MaxFrames
    /\ renderLoop.deps = << "c2", FALSE >>

----------------------------------------------------------------------------
(* Rejected play requests *)

\* C30: the catch handler of a rejected play() of playClip or togglePlay
\* changes no state of the controller (active clip, position of the video,
\* relative time, progress, playing or paused), reports nothing when the error
\* is an AbortError and reports every other error
C30_RejectedPlayChangesNothing ==
    [][ lastOp'.op = "playbackFailed" =>
          /\ UNCHANGED << activeClip, currentClipId, currentTime, progress,
                          isPlaying, isExporting, exportProgress >>
          /\ video'.currentTime = video.currentTime
          /\ video'.paused = video.paused
          /\ video'.events = video.events
          /\ lastOp'.error = video.playback
          /\ lastOp'.error \in PlayErrors
          /\ lastOp'.logged = (lastOp'.error # "AbortError") ]_vars

\* the platform refused the play() of a click on clip c2: the error is logged,
\* c2 is active at its start and the video stays paused
C30_Witness ==
    /\ lastOp.op = "playbackFailed"
    /\ lastOp.error = "NotAllowedError"
    /\ lastOp.logged
    /\ activeClip.id = "c2"
    /\ video.currentTime = activeClip.startSeconds
    /\ video.paused
    /\ ~ isPlaying

----------------------------------------------------------------------------
(* Zero-length clips *)

\* C31: a tick on a clip whose endSeconds is its startSeconds leaves progress
\* at 0, and export progress at 0 during an export
C31_ZeroLengthProgress ==
    (lastOp.op = "timeUpdate" /\ activeClip # NoClip /\ ClipDuration(activeClip) = 0) =>
        /\ progress = Zero
        /\ isExporting => exportProgress = Zero

----------------------------------------------------------------------------
(* What a render tick writes *)

\* C32: a call of render() changes the canvas and the pending animation frame
\* only: the active clip, the caption toggle, the video (position, paused,
\* events), the play state, relative time, progress and everything of the
\* export stay as they are, and what is drawn is the frame at the video's
\* position at that moment
C32_RenderWritesCanvasOnly ==
    [][ lastOp'.op = "render" =>
          /\ UNCHANGED << activeClip, currentClipId, showCaptions, isPlaying,
                          currentTime, progress, isExporting, exportProgress, video,
                          mediaRecorderRef, recorders, recordedChunks, downloads >>
          /\ renderLoop'.mounted = renderLoop.mounted
          /\ renderLoop'.issued = renderLoop.issued + 1
          /\ canvas'.frame = video.currentTime
          /\ lastOp'.pos = video.currentTime ]_vars

\* a call of render(), after earlier ones, while the video plays inside the
\* first caption of c1 and the play event has not been delivered yet
C32_Witness ==
    /\ lastOp.op = "render"
    /\ renderLoop.issued >= 3
    /\ ~ video.paused
    /\ ~ isPlaying
    /\ canvas.captionIndex = 0
    /\ canvas.frame = video.currentTime
    /\ video.currentTime > activeClip.startSeconds

----------------------------------------------------------------------------
(* The clip an export targets *)

\* C33: the clip a recorder was started for stays the clip of that recorder
\* for as long as mediaRecorderRef holds it, and when its onstop handler runs
\* the file name and the position the video is set to are those of that clip,
\* whatever clip is active then
C33_TargetFixedAtStart ==
    [][ /\ \A k \in DOMAIN recorders :
              (k = mediaRecorderRef /\ k = mediaRecorderRef' /\ lastOp'.op # "onStop")
                  => recorders'[k].clip = recorders[k].clip
        /\ lastOp'.op \in StartOps \ {"downloadAudioFailed"}
              => recorders'[mediaRecorderRef'].clip = activeClip
        /\ lastOp'.op = "onStop" =>
              LET target == recorders[downloads'.last.recorder].clip
              IN  /\ target # NoClip
                  /\ downloads'.last.name = DownloadName(target.title)
                  /\ downloads'.last.clip = target.id
                  /\ video'.currentTime = target.startSeconds ]_vars

\* the capture started for c1 is stopped while c2 is the active clip
C33_Witness ==
    /\ lastOp.op = "onStop"
    /\ lastOp.clip = "c1"
    /\ activeClip.id = "c2"
    /\ downloads.last.name = DownloadName(ClipsProp[1].title)
    /\ video.currentTime = ClipsProp[1].startSeconds

----------------------------------------------------------------------------
(* Stored time and progress against the position of the video *)

\* the last step was a tick, a seek or a selection on an active clip
PositionOps == {"timeUpdate", "seek", "playClip", "playClipRejected"}

\* relative time and progress are those of position pos in the active clip
StoredAgreesWith(pos) ==
    /\ currentTime = Max(0, pos - activeClip.startSeconds)
    /\ progress = Frac(100 * currentTime, ClipDuration(activeClip))

\* the last step was a tick outside an export that found the clip's end reached
RewindingTick ==
    /\ lastOp.op = "timeUpdate"
    /\ ~ isExporting
    /\ lastOp.pos >= activeClip.endSeconds

\* C34 as stated: after every tick, seek and selection the stored relative
\* time and progress are those of the video's position at that moment, the
\* tick that rewinds at the clip's end included
C34_StoredAgreesWithPosition ==
    (lastOp.op \in PositionOps /\ activeClip # NoClip) =>
        StoredAgreesWith(video.currentTime)

\* C34, amended: after every tick, seek and selection the stored relative time
\* and progress are those of the video's position at that moment, except
\* after the tick that rewinds at the clip's end: that tick stores the values
\* of the position it was reported, at or past endSeconds, and leaves the
\* video at startSeconds
C34_StoredAgreesUnlessRewound ==
    (lastOp.op \in PositionOps /\ activeClip # NoClip) =>
        IF RewindingTick
        THEN /\ StoredAgreesWith(lastOp.pos)
             /\ video.currentTime = activeClip.startSeconds
             /\ video.timeupdate
        ELSE StoredAgreesWith(video.currentTime)

\* the rewinding tick: progress 100% with the video back at the clip's start
C34_Witness ==
    /\ RewindingTick
    /\ activeClip # NoClip
    /\ progress = Frac(100, 1)
    /\ currentTime = ClipDuration(activeClip)
    /\ video.currentTime = activeClip.startSeconds
    /\ video.paused

----------------------------------------------------------------------------
(* No active clip *)

\* C35: while no clip is active a tick and a seek leave the active clip, the
\* position of the video, relative time, progress, isExporting, the export
\* progress and the buffer as they are, and no export is started
C35_NoClipNoOps ==
    [][ activeClip = NoClip =>
          /\ lastOp'.op \notin StartOps
          /\ lastOp'.op \in {"timeUpdate", "seek"} =>
                /\ UNCHANGED << activeClip, currentClipId, currentTime, progress,
                                isPlaying, isExporting, exportProgress,
                                recordedChunks, recorders, mediaRecorderRef,
                                downloads >>
                /\ video'.currentTime = video.currentTime
                /\ video'.paused = video.paused ]_vars

\* a tick of the video playing with no clip active
C35_Witness ==
    /\ lastOp.op = "timeUpdate"
    /\ activeClip = NoClip
    /\ video.currentTime > 0
    /\ ~ video.paused
    /\ currentTime = 0
    /\ progress = Zero

----------------------------------------------------------------------------
(* Whose chunks a blob holds *)

----------------------------------------------------------------------------
(* Analysis results and the process they belong to *)

\* ClipResult is rendered (lines 370-377): with the clips held and the video
\* of videoUrl
ResultsShown == app.appState = "RESULTS" /\ app.videoUrl # 0

\* C37: the app, once IDLE, stays IDLE with no clips until a process is
\* started; the completion of an analysis that is not the one of the present
\* process does not change the state of the app; and the clips shown are
\* those of the file whose video is shown
C37_ResultForItsProcessOnly ==
    [][ /\ (app.appState = "IDLE" /\ lastOp'.op # "processStart")
              => (app'.appState = "IDLE" /\ app'.clips = 0)
        /\ (lastOp'.op \in {"analysisResolved", "analysisRejected"}
              /\ lastOp'.pos # app.videoUrl)
              => (app'.appState = app.appState /\ app'.clips = app.clips)
        /\ ResultsShown' => app'.clips = app'.videoUrl ]_vars

----------------------------------------------------------------------------
(* The initial clip *)

\* C38: the effect of lines 32-43 runs only while no clip is active; it makes
\* the first clip the active clip, with the video at its startSeconds,
\* relative time 0 and progress 0%, and leaves the play state alone: stopped,
\* when it runs on activation.  Once a clip is active it does not run again,
\* and no other step takes the active clip away
C38_InitialClipOnce ==
    [][ /\ lastOp'.op = "initialClip" =>
              /\ activeClip = NoClip
              /\ activeClip' = ClipsProp[1]
              /\ currentClipId' = ClipsProp[1].id
              /\ video'.currentTime = ClipsProp[1].startSeconds
              /\ currentTime' = 0
              /\ progress' = Zero
              /\ video'.paused = video.paused
              /\ isPlaying' = isPlaying
              /\ lastOp.op = "init" => (video'.paused /\ ~ isPlaying')
        /\ (activeClip # NoClip /\ lastOp'.op # "initialClip")
              => activeClip' # NoClip ]_vars

\* the first clip became active on activation
C38_Witness ==
    /\ lastOp.op = "initialClip"
    /\ activeClip = ClipsProp[1]
    /\ video.currentTime = ClipsProp[1].startSeconds
    /\ video.paused
    /\ ~ isPlaying
    /\ currentTime = 0
    /\ progress = Zero

============================================================================
